---- MODULE Spec2Model ----
(***************************************************************************)
(* Model of static/agent_dashboard.js: the dashboard's WebSocket session   *)
(* lifecycle (connect, open, error, close, timer-driven reconnect), the    *)
(* heartbeat interval, the dispatch of inbound events and the              *)
(* active-meetings registry (a JavaScript Map) they mutate, together with  *)
(* the REST calls of joinMeeting, endMeeting, loadMeetingHistory and       *)
(* downloadTranscript, and the live-updates feed of addLiveUpdate.         *)
(*                                                                         *)
(* The browser runs every callback to completion on one event loop, so     *)
(* each callback (or each segment of an async function between two awaits) *)
(* is one action.                                                          *)
(***************************************************************************)
EXTENDS Integers, Sequences, FiniteSets, TLC

(***************************************************************************)
(* Bounds of the model.                                                    *)
(***************************************************************************)
NumSlots == 2      \* WebSocket objects that exist at once (slots are recycled)
MaxList == 1       \* length of a meetings list carried by a message or response
MaxPending == 1    \* REST requests in flight at once
MaxLive == 2       \* sessions an outside caller of connectWebSocket may stack up
MaxInbox == 2      \* frames of one socket received and not yet dispatched
MaxNotices == 11   \* notices ever added to the live-updates feed

KeepUpdates == 10  \* alerts addLiveUpdate keeps in the feed

Ids == {"m1", "m2"}
Titles == {"Standup", "Retro"}
Absent == "absent"                 \* a field the payload does not carry

Meetings == [meeting_id : Ids, title : Titles]
Slots == 1..NumSlots

RECURSIVE SeqsUpTo(_, _)
SeqsUpTo(S, n) ==
    IF n = 0 THEN {<<>>}
    ELSE LET shorter == SeqsUpTo(S, n - 1)
         IN  shorter \cup {Append(q, x) : q \in {r \in shorter : Len(r) = n - 1}, x \in S}

\* the lists a meetings_update frame or a history response carries: ids may
\* repeat; the title of a listed meeting plays no part
ListMeetings == {m \in Meetings : m.title = "Standup"}
MeetingLists == SeqsUpTo(ListMeetings, MaxList)

VARIABLES
    activeMeetings,       \* the Map: sequence of [key, value] in insertion order
    activeDisplay,        \* #active-meetings: [placeholder, cards]
    historyTable,         \* #meeting-history: the rows rendered (<<>> = placeholder row)
    websocketConnection,  \* 0 = null, else the slot of the current WebSocket
    readyState,           \* readyState of every WebSocket object
    closeQueued,          \* sockets already CLOSED whose close event is still to be fired
    reconnectTimers,      \* pending setTimeout(connectWebSocket, 3000) timers
    loaded,               \* DOMContentLoaded has fired
    pending,              \* REST requests in flight, in the order they were issued
    inbox,                \* per socket: frames received whose message task has not run
    liveUpdates,          \* #live-updates: the alerts of the feed, first child first
    last                  \* what the last callback did (observation only)

vars == <<activeMeetings, activeDisplay, historyTable,
          websocketConnection, readyState, closeQueued, reconnectTimers,
          loaded, pending, inbox, liveUpdates, last>>

(***************************************************************************)
(* JavaScript Map, as the sequence of its entries in insertion order.      *)
(***************************************************************************)
MapHas(map, k) == \E i \in 1..Len(map) : map[i].key = k

MapGet(map, k) == map[CHOOSE i \in 1..Len(map) : map[i].key = k].value

\* Map.prototype.set written as an unconditional push of the entry
MapSetPush(map, k, v) == Append(map, [key |-> k, value |-> v])

\* Map.prototype.set: overwrite the value of an existing key in place, else append
MapSet(map, k, v) ==
    IF MapHas(map, k)
    THEN [i \in 1..Len(map) |-> IF map[i].key = k THEN [key |-> k, value |-> v] ELSE map[i]]
    ELSE Append(map, [key |-> k, value |-> v])

\* Map.prototype.delete written as splice(indexOf(k), 1): an absent key (index -1)
\* removes the last entry
MapDeleteSplice(map, k) ==
    IF MapHas(map, k) THEN SelectSeq(map, LAMBDA e : e.key # k)
    ELSE IF Len(map) = 0 THEN map ELSE SubSeq(map, 1, Len(map) - 1)

\* Map.prototype.delete: remove the entry of the key if there is one
MapDelete(map, k) == SelectSeq(map, LAMBDA e : e.key # k)

(***************************************************************************)
(* Rendering and the live-updates feed.                                    *)
(***************************************************************************)
\* updateActiveMeetingsDisplay: the placeholder when the Map is empty, else one
\* card per entry (id "meeting-<key>", title of the value) in iteration order
updateActiveMeetingsDisplay(map) ==
    IF Len(map) = 0
    THEN [placeholder |-> TRUE, cards |-> <<>>]
    ELSE [placeholder |-> FALSE,
          cards |-> [i \in 1..Len(map) |-> [id |-> map[i].key, title |-> map[i].value.title]]]

\* updateMeetingHistory: the placeholder row for a missing or empty list, else
\* one row per element of the list, in order
updateMeetingHistory(meetings) ==
    IF Len(meetings) = 0 THEN <<>>
    ELSE [i \in 1..Len(meetings) |-> meetings[i].meeting_id]

\* addActiveMeeting: activeMeetings.set(meeting.meeting_id, meeting), then
\* updateActiveMeetingsDisplay()
addActiveMeeting(meeting) ==
    /\ activeMeetings' = MapSet(activeMeetings, meeting.meeting_id, meeting)
    /\ activeDisplay' = updateActiveMeetingsDisplay(activeMeetings')

\* removeActiveMeeting: activeMeetings.delete(meetingId), then
\* updateActiveMeetingsDisplay()
removeActiveMeeting(meetingId) ==
    /\ activeMeetings' = MapDelete(activeMeetings, meetingId)
    /\ activeDisplay' = updateActiveMeetingsDisplay(activeMeetings')

(***************************************************************************)
(* Observation record written by every action.                             *)
(***************************************************************************)
\* getBootstrapClass: the alert class of a notice type
getBootstrapClass(type) ==
    CASE type = "success" -> "success"
      [] type = "error" -> "danger"
      [] type = "warning" -> "warning"
      [] type = "info" -> "info"
      [] type = "transcript" -> "light"
      [] OTHER -> "secondary"

\* addLiveUpdate: the alert prepended to #live-updates, by its class
addLiveUpdate(type) == getBootstrapClass(type)

NoAlert == "none"

\* op: the callback; rs: the readyState it met; note: what it did; alert: the
\* alert it added to the feed
Did(op, rs, note, alert) == [op |-> op, rs |-> rs, note |-> note, alert |-> alert]

NoLast == Did("init", "NULL", "", NoAlert)

StateOf(conn) == IF conn = 0 THEN "NULL" ELSE readyState[conn]

\* A data object decoded from a frame: data.type, data.meeting_id, data.meeting
\* (NoMeeting when the payload carries none) and data.data.meetings
NoMeeting == [meeting_id |-> Absent, title |-> Absent]

Data(type, id, meeting, meetings) ==
    [type |-> type, meeting_id |-> id, meeting |-> meeting, meetings |-> meetings]

Events ==
    {Data("meeting_started", Absent, m, <<>>) : m \in Meetings}
    \cup {Data("meeting_ended", m.meeting_id, m, <<>>) : m \in Meetings}
    \cup {Data("meeting_ended", i, NoMeeting, <<>>) : i \in Ids}
    \cup {Data("meetings_update", Absent, NoMeeting, l) : l \in MeetingLists}
    \cup {Data(t, Absent, NoMeeting, <<>>) : t \in {"transcript_update", "pong", "unknown"}}

\* A frame is the text of an event, or text that JSON.parse rejects
Frames == {[json |-> TRUE, data |-> d] : d \in Events}
          \cup {[json |-> FALSE, data |-> Data("garbage", Absent, NoMeeting, <<>>)]}

Request(kind, arg) == [kind |-> kind, arg |-> arg]

RemoveAt(q, i) == SubSeq(q, 1, i - 1) \o SubSeq(q, i + 1, Len(q))

Init ==
    /\ activeMeetings = <<>>
    /\ activeDisplay \in {[placeholder |-> b, cards |-> <<>>] : b \in BOOLEAN}
    /\ historyTable = <<>>
    /\ websocketConnection = 0
    /\ readyState = [s \in Slots |-> "UNUSED"]
    /\ closeQueued = {}
    /\ reconnectTimers = 0
    /\ loaded = FALSE
    /\ pending = <<>>
    /\ inbox = [s \in Slots |-> <<>>]
    /\ liveUpdates = <<>>
    /\ last = NoLast

(***************************************************************************)
(* Connection lifecycle.                                                   *)
(***************************************************************************)
\* A slot holds no live WebSocket object: never used, or closed with its close
\* event already fired
FreeSlots == {s \in Slots : readyState[s] = "UNUSED"
                              \/ (readyState[s] = "CLOSED" /\ s \notin closeQueued)}

\* The slot the next new WebSocket(wsUrl) occupies: the first free one after the
\* current handle, cyclically
NewSocket ==
    LET after(k) == ((websocketConnection + k - 1) % NumSlots) + 1
        k0 == CHOOSE k \in 1..NumSlots :
                  /\ after(k) \in FreeSlots
                  /\ \A j \in 1..(k - 1) : after(j) \notin FreeSlots
    IN  after(k0)

\* connectWebSocket: create a socket, store it in websocketConnection and
\* register the four handlers on it; nothing is tested before the creation
connectWebSocket ==
    /\ FreeSlots # {}
    /\ websocketConnection' = NewSocket
    /\ readyState' = [readyState EXCEPT ![NewSocket] = "CONNECTING"]

\* loadMeetingHistory up to its first await: fetch('/api/agent/meetings')
loadMeetingHistory(q) == Append(q, Request("history", Absent))

\* document DOMContentLoaded: loadMeetingHistory(); connectWebSocket();
\* checkPlatformConnections()
DOMContentLoaded ==
    /\ ~loaded
    /\ loaded' = TRUE
    /\ Len(pending) < MaxPending
    /\ pending' = loadMeetingHistory(pending)
    /\ connectWebSocket
    /\ last' = Did("connect", StateOf(websocketConnection), "", NoAlert)
    /\ UNCHANGED <<activeMeetings, activeDisplay, historyTable, closeQueued,
                   reconnectTimers, inbox, liveUpdates>>

\* websocketConnection.onopen clearing the registry for the new session
onopenClearsRegistry(s) ==
    /\ last' = Did("open", "OPEN", "", addLiveUpdate("success"))
    /\ activeMeetings' = <<>>
    /\ activeDisplay' = updateActiveMeetingsDisplay(activeMeetings')
    /\ UNCHANGED <<historyTable, websocketConnection, reconnectTimers, loaded, inbox, liveUpdates,
                   pending>>

\* websocketConnection.onopen: the 'Connected' notice
onopen(s) ==
    /\ last' = Did("open", "OPEN", "", addLiveUpdate("success"))
    /\ UNCHANGED <<activeMeetings, activeDisplay, historyTable, websocketConnection,
                   reconnectTimers, loaded, inbox, liveUpdates, pending>>

\* the connection of socket s is established: readyState OPEN, open event
WsOpen(s) ==
    /\ readyState[s] = "CONNECTING"
    /\ readyState' = [readyState EXCEPT ![s] = "OPEN"]
    /\ onopen(s)
    /\ UNCHANGED closeQueued

\* the closing handshake of socket s starts: readyState CLOSING, no event
WsClosing(s) ==
    /\ readyState[s] = "OPEN"
    /\ readyState' = [readyState EXCEPT ![s] = "CLOSING"]
    /\ last' = Did("closing", "CLOSING", "", NoAlert)
    /\ UNCHANGED <<activeMeetings, activeDisplay, historyTable, websocketConnection,
                   closeQueued, reconnectTimers, loaded, inbox, liveUpdates, pending>>

\* websocketConnection.onerror written with a reconnect of its own
onerrorReconnects(s) ==
    /\ last' = Did("error", "CLOSED", "", addLiveUpdate("error"))
    /\ reconnectTimers' = reconnectTimers + 1
    /\ UNCHANGED <<activeMeetings, activeDisplay, historyTable, websocketConnection,
                   loaded, inbox, liveUpdates, pending>>

\* websocketConnection.onerror: console.error and the 'Connection error' notice
onerror(s) ==
    /\ last' = Did("error", "CLOSED", "", addLiveUpdate("error"))
    /\ UNCHANGED <<activeMeetings, activeDisplay, historyTable, websocketConnection,
                   reconnectTimers, loaded, inbox, liveUpdates, pending>>

\* the connection of socket s fails: readyState CLOSED, error event; the close
\* event follows
WsError(s) ==
    /\ readyState[s] \in {"CONNECTING", "OPEN", "CLOSING"}
    /\ readyState' = [readyState EXCEPT ![s] = "CLOSED"]
    /\ closeQueued' = closeQueued \cup {s}
    /\ onerror(s)

\* the close event of s follows an error event, or closes a sound connection
CloseNote(s) == IF s \in closeQueued THEN "after_error" ELSE "clean"

\* websocketConnection.onclose without the setTimeout
oncloseNoReconnect(s) ==
    /\ last' = Did("close", "CLOSED", CloseNote(s), addLiveUpdate("warning"))
    /\ UNCHANGED <<activeMeetings, activeDisplay, historyTable, websocketConnection,
                   reconnectTimers, loaded, inbox, liveUpdates, pending>>

\* websocketConnection.onclose registered twice, so that it runs twice
oncloseTwice(s) ==
    /\ last' = Did("close", "CLOSED", CloseNote(s), addLiveUpdate("warning"))
    /\ reconnectTimers' = reconnectTimers + 2
    /\ UNCHANGED <<activeMeetings, activeDisplay, historyTable, websocketConnection,
                   loaded, inbox, liveUpdates, pending>>

\* websocketConnection.onclose: the 'Disconnected' notice, then
\* setTimeout(connectWebSocket, 3000)
onclose(s) ==
    /\ last' = Did("close", "CLOSED", CloseNote(s), addLiveUpdate("warning"))
    /\ reconnectTimers' = reconnectTimers + 1
    /\ UNCHANGED <<activeMeetings, activeDisplay, historyTable, websocketConnection,
                   loaded, inbox, liveUpdates, pending>>

\* the close event of socket s: after an error event, or on a clean closure
WsClose(s) ==
    /\ s \in closeQueued \/ readyState[s] \in {"OPEN", "CLOSING"}
    /\ readyState' = [readyState EXCEPT ![s] = "CLOSED"]
    /\ closeQueued' = closeQueued \ {s}
    /\ onclose(s)

\* a reconnect timer set by onclose expires: connectWebSocket()
ReconnectTimer ==
    /\ reconnectTimers > 0
    /\ reconnectTimers' = reconnectTimers - 1
    /\ connectWebSocket
    /\ last' = Did("connect", StateOf(websocketConnection), "", NoAlert)
    /\ UNCHANGED <<activeMeetings, activeDisplay, historyTable, closeQueued, loaded, inbox, liveUpdates,
                   pending>>

(***************************************************************************)
(* Heartbeat.                                                              *)
(***************************************************************************)
\* WebSocket.send: a TypeError on a null handle and an InvalidStateError on a
\* CONNECTING socket; otherwise the call returns
SendThrows(conn) == StateOf(conn) \in {"NULL", "CONNECTING"}

\* the interval callback with its test written against WebSocket.CONNECTING
HeartbeatSendsWhileConnecting(conn) == conn # 0 /\ readyState[conn] = "CONNECTING"

\* the interval callback without its test of the handle and the readyState
HeartbeatSendsAlways(conn) == TRUE

\* the interval callback's test: websocketConnection &&
\* websocketConnection.readyState === WebSocket.OPEN
HeartbeatSends(conn) == conn # 0 /\ readyState[conn] = "OPEN"

\* the setInterval callback, every 30000 ms from script load on: send the ping
\* if the test passes
HeartbeatTick ==
    /\ last' = Did("heartbeat", StateOf(websocketConnection),
                   IF ~HeartbeatSends(websocketConnection) THEN "idle"
                   ELSE IF SendThrows(websocketConnection) THEN "threw"
                   ELSE "ping",
                   NoAlert)
    /\ UNCHANGED <<activeMeetings, activeDisplay, historyTable, websocketConnection,
                   readyState, closeQueued, reconnectTimers, loaded, inbox, liveUpdates, pending>>

(***************************************************************************)
(* Dispatch of inbound events.                                             *)
(***************************************************************************)
\* What a set() of this meeting does to the Map: a new key, the record already
\* stored, or another record under a stored key
UpsertNote(meeting) ==
    IF ~MapHas(activeMeetings, meeting.meeting_id) THEN "new"
    ELSE IF MapGet(activeMeetings, meeting.meeting_id) = meeting THEN "same"
    ELSE "overwrite"

RemoveNote(meetingId) == IF MapHas(activeMeetings, meetingId) THEN "present" ELSE "absent"

\* handleWebSocketMessage throws: data.meeting.title of a meeting_ended event
\* that carries no meeting
HandlerThrows(data) == data.type = "meeting_ended" /\ data.meeting = NoMeeting

RECURSIVE MapOfList(_)
MapOfList(meetings) ==
    IF Len(meetings) = 0 THEN <<>>
    ELSE LET m == meetings[Len(meetings)]
         IN  MapSet(MapOfList(SubSeq(meetings, 1, Len(meetings) - 1)), m.meeting_id, m)

\* handleWebSocketMessage with a switch that resets the registry for every
\* event that is not one of meeting_started, meeting_ended, meetings_update
handleWebSocketMessageResetOnOther(data) ==
    CASE data.type = "meeting_started" ->
            /\ addActiveMeeting(data.meeting)
            /\ UNCHANGED <<historyTable, pending>>
      [] data.type = "meeting_ended" ->
            /\ removeActiveMeeting(data.meeting_id)
            /\ IF data.meeting = NoMeeting
               THEN UNCHANGED pending
               ELSE /\ Len(pending) < MaxPending
                    /\ pending' = loadMeetingHistory(pending)
            /\ UNCHANGED historyTable
      [] data.type = "meetings_update" ->
            /\ historyTable' = updateMeetingHistory(data.meetings)
            /\ UNCHANGED <<activeMeetings, activeDisplay, pending>>
      [] OTHER ->
            /\ activeMeetings' = <<>>
            /\ activeDisplay' = updateActiveMeetingsDisplay(activeMeetings')
            /\ UNCHANGED <<historyTable, pending>>

\* handleWebSocketMessage with a 'meetings_update' case that replaces the
\* contents of activeMeetings by the list instead of rendering the history table
handleWebSocketMessageReplaceAll(data) ==
    CASE data.type = "meeting_started" ->
            /\ addActiveMeeting(data.meeting)
            /\ UNCHANGED <<historyTable, pending>>
      [] data.type = "meeting_ended" ->
            /\ removeActiveMeeting(data.meeting_id)
            /\ IF data.meeting = NoMeeting
               THEN UNCHANGED pending
               ELSE /\ Len(pending) < MaxPending
                    /\ pending' = loadMeetingHistory(pending)
            /\ UNCHANGED historyTable
      [] data.type = "meetings_update" ->
            /\ activeMeetings' = MapOfList(data.meetings)
            /\ activeDisplay' = updateActiveMeetingsDisplay(activeMeetings')
            /\ UNCHANGED <<historyTable, pending>>
      [] OTHER ->
            UNCHANGED <<activeMeetings, activeDisplay, historyTable, pending>>

\* handleWebSocketMessage: the switch on data.type
handleWebSocketMessage(data) ==
    CASE data.type = "meeting_started" ->
            /\ addActiveMeeting(data.meeting)
            /\ UNCHANGED <<historyTable, pending>>
      [] data.type = "meeting_ended" ->
            /\ removeActiveMeeting(data.meeting_id)
            /\ IF data.meeting = NoMeeting
               THEN UNCHANGED pending
               ELSE /\ Len(pending) < MaxPending
                    /\ pending' = loadMeetingHistory(pending)
            /\ UNCHANGED historyTable
      [] data.type = "meetings_update" ->
            /\ historyTable' = updateMeetingHistory(data.meetings)
            /\ UNCHANGED <<activeMeetings, activeDisplay, pending>>
      [] OTHER ->
            \* transcript_update (a notice only), pong, default (console.log)
            UNCHANGED <<activeMeetings, activeDisplay, historyTable, pending>>

\* the notice handleWebSocketMessage adds for the event
HandlerAlert(data) ==
    CASE data.type = "meeting_started" -> addLiveUpdate("info")
      [] data.type = "meeting_ended" ->
            IF data.meeting = NoMeeting THEN NoAlert ELSE addLiveUpdate("info")
      [] data.type = "transcript_update" -> addLiveUpdate("transcript")
      [] OTHER -> NoAlert

HandlerNote(data) ==
    CASE data.type = "meeting_started" -> UpsertNote(data.meeting)
      [] data.type = "meeting_ended" -> RemoveNote(data.meeting_id)
      [] OTHER -> ""

\* websocketConnection.onmessage: JSON.parse(event.data), then
\* handleWebSocketMessage(data); a frame that does not parse throws before it
onmessage(s, frame) ==
    IF frame.json
    THEN /\ handleWebSocketMessage(frame.data)
         /\ last' = Did(frame.data.type, readyState[s], HandlerNote(frame.data),
                        HandlerAlert(frame.data))
    ELSE /\ UNCHANGED <<activeMeetings, activeDisplay, historyTable, pending>>
         /\ last' = Did("garbage", readyState[s], "threw", NoAlert)

\* a frame of session s reaches the browser while its socket is OPEN, and a
\* frame that onmessage cannot decode ends the session
MessageEventFatalDecode(s, frame) ==
    /\ readyState[s] = "OPEN"
    /\ onmessage(s, frame)
    /\ readyState' = IF frame.json THEN readyState ELSE [readyState EXCEPT ![s] = "CLOSED"]
    /\ closeQueued' = IF frame.json THEN closeQueued ELSE closeQueued \cup {s}
    /\ UNCHANGED <<websocketConnection, reconnectTimers, loaded, inbox, liveUpdates>>

\* a frame of session s reaches the browser and onmessage runs whatever the
\* readyState of the socket
MessageEventAnyState(s, frame) ==
    /\ readyState[s] \in {"OPEN", "CLOSING", "CLOSED"}
    /\ onmessage(s, frame)
    /\ UNCHANGED <<websocketConnection, readyState, closeQueued, reconnectTimers, loaded, inbox, liveUpdates>>

\* a frame of session s reaches the browser while the readyState of its socket
\* is OPEN: the message event fires on the socket and onmessage runs
MessageEvent(s, frame) ==
    /\ readyState[s] = "OPEN"
    /\ onmessage(s, frame)
    /\ UNCHANGED <<websocketConnection, readyState, closeQueued, reconnectTimers, loaded, inbox, liveUpdates>>

\* a frame of session s reaches the browser after the socket left OPEN: no
\* message event fires on a closing or closed socket, the frame is discarded
MessageDiscarded(s) ==
    /\ readyState[s] \in {"CLOSING", "CLOSED"}
    /\ last' = Did("discarded", readyState[s], "", NoAlert)
    /\ UNCHANGED <<activeMeetings, activeDisplay, historyTable, websocketConnection,
                   readyState, closeQueued, reconnectTimers, loaded, inbox, liveUpdates, pending>>

(***************************************************************************)
(* REST calls.                                                             *)
(***************************************************************************)
\* how a request ends: result.success, result.success false, or a rejected
\* fetch / a body that is no JSON
Outcomes == {"success", "failure", "rejected"}

\* the results of POST /api/agent/join_meeting: success carries data.meeting_id
JoinResults == {[outcome |-> "success", meeting_id |-> id] : id \in Ids}
               \cup {[outcome |-> o, meeting_id |-> Absent] : o \in {"failure", "rejected"}}

\* the results of GET /api/agent/meetings: the list, or a rejection
HistoryResults == {[ok |-> TRUE, meetings |-> l] : l \in MeetingLists}
                  \cup {[ok |-> FALSE, meetings |-> <<>>]}

\* joinMeeting up to its first await: the form is read and the POST is sent
JoinMeeting(title) ==
    /\ loaded
    /\ Len(pending) < MaxPending
    /\ pending' = Append(pending, Request("join", title))
    /\ last' = Did("join", "NULL", "", NoAlert)
    /\ UNCHANGED <<activeMeetings, activeDisplay, historyTable, websocketConnection,
                   readyState, closeQueued, reconnectTimers, loaded, inbox, liveUpdates>>

\* joinMeeting adding the meeting whatever the response says
JoinResponseAddsAlways(i, result) ==
    /\ i \in 1..Len(pending)
    /\ pending[i].kind = "join"
    /\ pending' = RemoveAt(pending, i)
    /\ LET meeting == [meeting_id |-> result.meeting_id, title |-> pending[i].arg]
       IN  /\ addActiveMeeting(meeting)
           /\ last' = IF result.outcome = "success"
                      THEN Did("join_done", "NULL", UpsertNote(meeting),
                               addLiveUpdate("success"))
                      ELSE Did("join_done", "NULL", result.outcome, addLiveUpdate("error"))
    /\ UNCHANGED <<historyTable, websocketConnection, readyState, closeQueued,
                   reconnectTimers, loaded, inbox, liveUpdates>>

\* joinMeeting after the response: result.success adds the meeting under
\* result.data.meeting_id; a failure or a rejection ends in the catch
JoinResponse(i, result) ==
    /\ i \in 1..Len(pending)
    /\ pending[i].kind = "join"
    /\ pending' = RemoveAt(pending, i)
    /\ LET meeting == [meeting_id |-> result.meeting_id, title |-> pending[i].arg]
       IN  IF result.outcome = "success"
           THEN /\ addActiveMeeting(meeting)
                /\ last' = Did("join_done", "NULL", UpsertNote(meeting),
                               addLiveUpdate("success"))
           ELSE /\ UNCHANGED <<activeMeetings, activeDisplay>>
                /\ last' = Did("join_done", "NULL", result.outcome, addLiveUpdate("error"))
    /\ UNCHANGED <<historyTable, websocketConnection, readyState, closeQueued,
                   reconnectTimers, loaded, inbox, liveUpdates>>

\* the ids of the cards on display, whose End buttons call endMeeting
DisplayedIds == {activeDisplay.cards[i].id : i \in 1..Len(activeDisplay.cards)}

\* endMeeting removing the meeting as soon as the user confirms, before the
\* server has answered
EndMeetingOptimistic(meetingId, confirmed) ==
    /\ loaded
    /\ meetingId \in DisplayedIds
    /\ IF confirmed
       THEN /\ Len(pending) < MaxPending
            /\ pending' = Append(pending, Request("end", meetingId))
            /\ removeActiveMeeting(meetingId)
       ELSE UNCHANGED <<pending, activeMeetings, activeDisplay>>
    /\ last' = Did("end", "NULL", IF confirmed THEN "confirmed" ELSE "declined", NoAlert)
    /\ UNCHANGED <<historyTable, websocketConnection, readyState, closeQueued,
                   reconnectTimers, loaded, inbox, liveUpdates>>

\* endMeeting up to its first await: return if confirm() is declined, else POST
EndMeeting(meetingId, confirmed) ==
    /\ loaded
    /\ meetingId \in DisplayedIds
    /\ IF confirmed
       THEN /\ Len(pending) < MaxPending
            /\ pending' = Append(pending, Request("end", meetingId))
       ELSE UNCHANGED pending
    /\ last' = Did("end", "NULL", IF confirmed THEN "confirmed" ELSE "declined", NoAlert)
    /\ UNCHANGED <<activeMeetings, activeDisplay, historyTable, websocketConnection,
                   readyState, closeQueued, reconnectTimers, loaded, inbox, liveUpdates>>

\* endMeeting after the response: result.success removes the meeting and
\* refreshes the history; a failure or a rejection ends in the catch
EndResponse(i, outcome) ==
    /\ i \in 1..Len(pending)
    /\ pending[i].kind = "end"
    /\ IF outcome = "success"
       THEN /\ removeActiveMeeting(pending[i].arg)
            /\ pending' = loadMeetingHistory(RemoveAt(pending, i))
            /\ last' = Did("end_done", "NULL", RemoveNote(pending[i].arg),
                           addLiveUpdate("success"))
       ELSE /\ UNCHANGED <<activeMeetings, activeDisplay>>
            /\ pending' = RemoveAt(pending, i)
            /\ last' = Did("end_done", "NULL", outcome, addLiveUpdate("error"))
    /\ UNCHANGED <<historyTable, websocketConnection, readyState, closeQueued,
                   reconnectTimers, loaded, inbox, liveUpdates>>

\* loadMeetingHistory after the response: updateMeetingHistory(meetings), or the
\* catch (console.error only) when the request or its decoding fails
HistoryResponse(i, result) ==
    /\ i \in 1..Len(pending)
    /\ pending[i].kind = "history"
    /\ pending' = RemoveAt(pending, i)
    /\ historyTable' = IF result.ok THEN updateMeetingHistory(result.meetings)
                       ELSE historyTable
    /\ last' = Did("history_done", "NULL", IF result.ok THEN "success" ELSE "rejected",
                   NoAlert)
    /\ UNCHANGED <<activeMeetings, activeDisplay, websocketConnection, readyState,
                   closeQueued, reconnectTimers, loaded, inbox, liveUpdates>>

(***************************************************************************)
(* Specifications.                                                         *)
(***************************************************************************)
Next ==
    \/ DOMContentLoaded
    \/ \E s \in Slots : WsOpen(s)
    \/ \E s \in Slots : WsClosing(s)
    \/ \E s \in Slots : WsError(s)
    \/ \E s \in Slots : WsClose(s)
    \/ ReconnectTimer
    \/ HeartbeatTick
    \/ \E s \in Slots, frame \in Frames : MessageEvent(s, frame)
    \/ \E s \in Slots : MessageDiscarded(s)
    \/ \E title \in Titles : JoinMeeting(title)
    \/ \E i \in 1..MaxPending, result \in JoinResults : JoinResponse(i, result)
    \/ \E id \in Ids, confirmed \in BOOLEAN : EndMeeting(id, confirmed)
    \/ \E i \in 1..MaxPending, outcome \in Outcomes : EndResponse(i, outcome)
    \/ \E i \in 1..MaxPending, result \in HistoryResults : HistoryResponse(i, result)

Spec == Init /\ [][Next]_vars

\* connectWebSocket is a global function: Api adds a call of it from outside the
\* two callers of this file, at any time after the page has loaded
ApiConnect ==
    /\ loaded
    /\ Cardinality(Slots \ FreeSlots) + reconnectTimers < MaxLive
    /\ connectWebSocket
    /\ last' = Did("connect", StateOf(websocketConnection), "api", NoAlert)
    /\ UNCHANGED <<activeMeetings, activeDisplay, historyTable, closeQueued,
                   reconnectTimers, loaded, inbox, liveUpdates, pending>>

NextApi == Next \/ ApiConnect

SpecApi == Init /\ [][NextApi]_vars

\* the ids of the rows of the history table, whose Export buttons call
\* downloadTranscript
HistoryIds == {historyTable[i] : i \in 1..Len(historyTable)}

\* downloadTranscript up to its first await: the GET of the transcript is sent
DownloadTranscript(meetingId) ==
    /\ loaded
    /\ meetingId \in HistoryIds
    /\ Len(pending) < MaxPending
    /\ pending' = Append(pending, Request("transcript", meetingId))
    /\ last' = Did("download", "NULL", "", NoAlert)
    /\ UNCHANGED <<activeMeetings, activeDisplay, historyTable, websocketConnection,
                   readyState, closeQueued, reconnectTimers, loaded, inbox, liveUpdates>>

\* downloadTranscript after the response: result.success saves the transcript
\* as a file; a response that reports failure skips the if and does nothing;
\* a rejection or a body that is no JSON ends in the catch, which adds a notice
TranscriptResponse(i, outcome) ==
    /\ i \in 1..Len(pending)
    /\ pending[i].kind = "transcript"
    /\ pending' = RemoveAt(pending, i)
    /\ last' = Did("download_done", "NULL", outcome,
                   IF outcome = "rejected" THEN addLiveUpdate("error") ELSE NoAlert)
    /\ UNCHANGED <<activeMeetings, activeDisplay, historyTable, websocketConnection,
                   readyState, closeQueued, reconnectTimers, loaded, inbox, liveUpdates>>

\* Rest adds the Export buttons of the history table
NextRest ==
    \/ Next
    \/ \E id \in Ids : DownloadTranscript(id)
    \/ \E i \in 1..MaxPending, outcome \in Outcomes : TranscriptResponse(i, outcome)

SpecRest == Init /\ [][NextRest]_vars

\* a call of shutdown() from the page: the file defines no such function, the
\* call throws a ReferenceError and nothing is cancelled or closed
Shutdown ==
    /\ loaded
    /\ last' = Did("shutdown", StateOf(websocketConnection), "threw", NoAlert)
    /\ UNCHANGED <<activeMeetings, activeDisplay, historyTable, websocketConnection,
                   readyState, closeQueued, reconnectTimers, loaded, inbox, liveUpdates, pending>>

NextShutdown == Next \/ Shutdown

SpecShutdown == Init /\ [][NextShutdown]_vars

\* The timer set by onclose expires, and the browser fires the close event it
\* owes after an error event
FairSpec ==
    /\ Init
    /\ [][Next]_vars
    /\ WF_vars(ReconnectTimer)
    /\ \A s \in Slots : WF_vars(WsClose(s))

(***************************************************************************)
(* The event stream of a session, frame by frame.  Spec fuses the arrival  *)
(* of a frame and its message event into one step; Fifo keeps them apart:  *)
(* the browser queues one task per frame received on a socket, and runs    *)
(* the tasks of a socket (message, error, close) in the order queued.      *)
(***************************************************************************)
\* the frames of the stream: meeting_started, meeting_ended without a meeting
\* object, and text that does not parse
FifoFrames ==
    {f \in Frames : \/ ~f.json
                    \/ f.data.type = "meeting_started"
                    \/ f.data.type = "meeting_ended" /\ f.data.meeting = NoMeeting}

\* the transport hands a frame of the OPEN socket s to the browser
Deliver(s, frame) ==
    /\ readyState[s] = "OPEN"
    /\ Len(inbox[s]) < MaxInbox
    /\ inbox' = [inbox EXCEPT ![s] = Append(@, frame)]
    /\ last' = Did("deliver", readyState[s], "", NoAlert)
    /\ UNCHANGED <<activeMeetings, activeDisplay, historyTable, websocketConnection,
                   readyState, closeQueued, reconnectTimers, loaded, liveUpdates, pending>>

\* the message task that runs onmessage on the frame received last
MessageTaskNewestFirst(s) ==
    /\ inbox[s] # <<>>
    /\ readyState[s] = "OPEN"
    /\ onmessage(s, inbox[s][Len(inbox[s])])
    /\ inbox' = [inbox EXCEPT ![s] = SubSeq(@, 1, Len(@) - 1)]
    /\ UNCHANGED <<websocketConnection, readyState, closeQueued, reconnectTimers, loaded, liveUpdates>>

\* the oldest message task of socket s runs: the socket is OPEN, the message
\* event fires and onmessage runs to completion on the frame
MessageTask(s) ==
    /\ inbox[s] # <<>>
    /\ readyState[s] = "OPEN"
    /\ onmessage(s, Head(inbox[s]))
    /\ inbox' = [inbox EXCEPT ![s] = Tail(@)]
    /\ UNCHANGED <<websocketConnection, readyState, closeQueued, reconnectTimers, loaded, liveUpdates>>

\* the oldest message task of socket s runs after close() was called on it: no
\* message event fires
DiscardTask(s) ==
    /\ inbox[s] # <<>>
    /\ readyState[s] \in {"CLOSING", "CLOSED"}
    /\ inbox' = [inbox EXCEPT ![s] = Tail(@)]
    /\ last' = Did("discarded", readyState[s], "", NoAlert)
    /\ UNCHANGED <<activeMeetings, activeDisplay, historyTable, websocketConnection,
                   readyState, closeQueued, reconnectTimers, loaded, liveUpdates, pending>>

\* the error and close tasks of a socket are queued behind its message tasks
NextFifo ==
    \/ DOMContentLoaded
    \/ \E s \in Slots : WsOpen(s)
    \/ \E s \in Slots : WsClosing(s)
    \/ \E s \in Slots : inbox[s] = <<>> /\ WsError(s)
    \/ \E s \in Slots : inbox[s] = <<>> /\ WsClose(s)
    \/ ReconnectTimer
    \/ \E s \in Slots, frame \in FifoFrames : Deliver(s, frame)
    \/ \E s \in Slots : MessageTask(s)
    \/ \E s \in Slots : DiscardTask(s)

SpecFifo == Init /\ [][NextFifo]_vars

(***************************************************************************)
(* The live-updates feed.  Spec records the notice of a step as last.alert *)
(* and leaves the feed out; Feed keeps the feed itself and nothing else:   *)
(* the alerts of #live-updates in document order, each with the number of  *)
(* the addLiveUpdate call that created it.                                 *)
(***************************************************************************)
\* the notice types of the feed specification
FeedTypes == {"info", "error"}

\* the updateElement of the n-th notice
UpdateElement(n, type) == [n |-> n, class |-> addLiveUpdate(type)]

\* the feed n calls of addLiveUpdate leave behind, newest first
RECURSIVE FeedOf(_)
FeedOf(n) == IF n = 0 THEN <<>> ELSE <<UpdateElement(n, "info")>> \o FeedOf(n - 1)

\* the number of the next notice
NextNotice == IF liveUpdates = <<>> THEN 1 ELSE liveUpdates[1].n + 1

\* addLiveUpdate with the eviction written as updates[0].remove()
LiveUpdatesAfterEvictFirst(updates, updateElement) ==
    LET prepended == <<updateElement>> \o updates
    IN  IF Len(prepended) > KeepUpdates THEN Tail(prepended) ELSE prepended

\* addLiveUpdate on the feed: prepend(updateElement), then remove the last
\* alert if more than 10 are left
LiveUpdatesAfter(updates, updateElement) ==
    LET prepended == <<updateElement>> \o updates
    IN  IF Len(prepended) > KeepUpdates
        THEN SubSeq(prepended, 1, Len(prepended) - 1)
        ELSE prepended

\* a call of addLiveUpdate(message, type)
AddLiveUpdate(type) ==
    /\ NextNotice <= MaxNotices
    /\ liveUpdates' = LiveUpdatesAfter(liveUpdates, UpdateElement(NextNotice, type))
    /\ last' = Did("notice", "NULL",
                   IF Len(liveUpdates) + 1 > KeepUpdates THEN "evicted" ELSE "kept",
                   addLiveUpdate(type))
    /\ UNCHANGED <<activeMeetings, activeDisplay, historyTable, websocketConnection,
                   readyState, closeQueued, reconnectTimers, loaded, pending, inbox>>

\* the user clicks the btn-close of the i-th alert: data-bs-dismiss="alert"
\* removes it from the feed
DismissUpdate(i) ==
    /\ i \in 1..Len(liveUpdates)
    /\ liveUpdates' = RemoveAt(liveUpdates, i)
    /\ last' = Did("dismiss", "NULL", "", NoAlert)
    /\ UNCHANGED <<activeMeetings, activeDisplay, historyTable, websocketConnection,
                   readyState, closeQueued, reconnectTimers, loaded, pending, inbox>>

\* the feed starts with at most KeepUpdates alerts
InitFeed ==
    /\ activeMeetings = <<>>
    /\ activeDisplay = updateActiveMeetingsDisplay(activeMeetings)
    /\ historyTable = <<>>
    /\ websocketConnection = 0
    /\ readyState = [s \in Slots |-> "UNUSED"]
    /\ closeQueued = {}
    /\ reconnectTimers = 0
    /\ loaded = FALSE
    /\ pending = <<>>
    /\ inbox = [s \in Slots |-> <<>>]
    /\ liveUpdates \in {FeedOf(n) : n \in 0..KeepUpdates}
    /\ last = NoLast

NextFeed ==
    \/ \E type \in FeedTypes : AddLiveUpdate(type)
    \/ \E i \in 1..KeepUpdates : DismissUpdate(i)

SpecFeed == InitFeed /\ [][NextFeed]_vars

(***************************************************************************)
(* Properties.                                                             *)
(***************************************************************************)
KeySet(map) == {map[i].key : i \in 1..Len(map)}

LiveSessions == {s \in Slots : readyState[s] \in {"CONNECTING", "OPEN"}}

DispatchOps == {"meeting_started", "meeting_ended", "transcript_update",
                "meetings_update", "pong", "unknown", "garbage"}

\* C1: the registry never holds two entries with the same meeting_id, whatever
\* sequence of meeting_started / meeting_ended events and join / end responses
\* has been applied.
RegistryIdsUnique ==
    \A i, j \in 1..Len(activeMeetings) :
        activeMeetings[i].key = activeMeetings[j].key => i = j

\* an upsert of a key already stored has just run on a registry of two entries
RegistryIdsUniqueWitness ==
    /\ last.op \in {"meeting_started", "join_done"}
    /\ last.note \in {"same", "overwrite"}
    /\ Len(activeMeetings) = 2

IdsOf(meetings) == {meetings[i].meeting_id : i \in 1..Len(meetings)}

UpdateFrames == {f \in Frames : f.data.type = "meetings_update"}

HeartbeatOnlyWhenOpen ==
    last.op = "heartbeat" =>
        /\ last.note # "threw"
        /\ last.note = "ping" => last.rs = "OPEN"
        /\ last.rs # "OPEN" => last.note = "idle"

\* a tick has just fired between the close of a session and the next open
HeartbeatOnlyWhenOpenWitness ==
    /\ last.op = "heartbeat"
    /\ last.rs = "CLOSED"
    /\ last.note = "idle"
    /\ reconnectTimers = 1

\* C4: at most one session is CONNECTING or OPEN, and it is the one
\* websocketConnection refers to.
AtMostOneLiveSession ==
    /\ Cardinality(LiveSessions) <= 1
    /\ \A s \in LiveSessions : s = websocketConnection

\* a reconnect has opened a new session after an earlier one closed
AtMostOneLiveSessionWitness ==
    /\ StateOf(websocketConnection) = "OPEN"
    /\ \E s \in Slots : s # websocketConnection /\ readyState[s] = "CLOSED"

\* C5: every closure leaves exactly one reconnect pending until it starts the
\* next session: once the page has loaded, the sockets not yet fully closed
\* (close event fired) and the pending reconnect timers number exactly one, so
\* an error event schedules nothing, the close event schedules one timer, and
\* two timers are never pending.
OneReconnectPerClosure ==
    /\ Cardinality(Slots \ FreeSlots) + reconnectTimers = IF loaded THEN 1 ELSE 0
    /\ reconnectTimers <= 1

\* the close event that follows an error event has just scheduled the reconnect
OneReconnectPerClosureWitness ==
    /\ last.op = "close"
    /\ last.note = "after_error"
    /\ reconnectTimers = 1

\* C6: once the current session is CLOSED, a new connection attempt is
\* eventually started, whether or not the session had reached OPEN.
ClosedLeadsToConnecting ==
    \A s \in Slots :
        (websocketConnection = s /\ readyState[s] = "CLOSED")
            ~> (StateOf(websocketConnection) = "CONNECTING")

\* a reconnect timer has just started a new attempt after a closure
ClosedLeadsToConnectingWitness ==
    /\ last.op = "connect"
    /\ last.rs = "CLOSED"
    /\ StateOf(websocketConnection) = "CONNECTING"

\* C7, as claimed: a call of connectWebSocket while a session is CONNECTING or
\* OPEN creates no session and leaves websocketConnection as it was.
ConnectWhileLiveIsNoOp ==
    [][(LiveSessions # {} /\ (ApiConnect \/ ReconnectTimer \/ DOMContentLoaded)) =>
          /\ readyState' = readyState
          /\ websocketConnection' = websocketConnection]_vars

UpsertIdempotent ==
    [][(last'.op \in {"meeting_started", "join_done"} /\ last'.note = "same") =>
          /\ activeMeetings' = activeMeetings
          /\ activeDisplay' = activeDisplay]_vars

\* meeting_started has just been dispatched for a record already stored, first
\* of two entries
UpsertIdempotentWitness ==
    /\ last.op = "meeting_started"
    /\ last.note = "same"
    /\ Len(activeMeetings) = 2
    /\ activeMeetings[1].value \in Meetings

\* C10: a remove of an id the registry does not hold (a meeting_ended event, or
\* the success of endMeeting after the entry has gone) leaves the registry as it
\* was, and the handler runs on past it: endMeeting still adds its success notice.
RemoveAbsentIsNoOp ==
    [][(last'.op \in {"meeting_ended", "end_done"} /\ last'.note = "absent") =>
          /\ activeMeetings' = activeMeetings
          /\ last'.op = "end_done" => last'.alert = "success"]_vars

\* meeting_ended has just been dispatched for an id absent from a registry that
\* holds another entry
RemoveAbsentIsNoOpWitness ==
    /\ last.op = "meeting_ended"
    /\ last.note = "absent"
    /\ Len(activeMeetings) > 0

StartedFrames == {f \in Frames : f.data.type = "meeting_started"}

EndedFrames == {f \in Frames : f.data.type = "meeting_ended"}

\* the record the registry holds under k, NoMeeting when it holds none
ValueAt(map, k) == IF MapHas(map, k) THEN MapGet(map, k) ELSE NoMeeting

\* C11: the dispatch of meeting_started with meeting m makes the registry map
\* m.meeting_id to m, inserting or overwriting, and leaves every other entry as
\* it was; the dispatch of meeting_ended with meeting_id i leaves the registry
\* without i and every other entry as it was. On the empty registry
\* meeting_started for X gives exactly the one entry X, and meeting_ended for X
\* on that registry gives the empty one.
DispatchMapsAndRemoves ==
    [][/\ last'.op = "meeting_started" =>
              \A s \in Slots, f \in StartedFrames :
                  MessageEvent(s, f) =>
                      LET m == f.data.meeting
                      IN  /\ ValueAt(activeMeetings', m.meeting_id) = m
                          /\ \A k \in Ids \ {m.meeting_id} :
                                 ValueAt(activeMeetings', k) = ValueAt(activeMeetings, k)
                          /\ Len(activeMeetings') =
                                 Cardinality(KeySet(activeMeetings) \cup {m.meeting_id})
                          /\ activeMeetings = <<>> =>
                                 activeMeetings' = <<[key |-> m.meeting_id, value |-> m]>>
       /\ last'.op = "meeting_ended" =>
              \A s \in Slots, f \in EndedFrames :
                  MessageEvent(s, f) =>
                      LET id == f.data.meeting_id
                      IN  /\ ~MapHas(activeMeetings', id)
                          /\ \A k \in Ids \ {id} :
                                 ValueAt(activeMeetings', k) = ValueAt(activeMeetings, k)
                          /\ Len(activeMeetings') =
                                 Cardinality(KeySet(activeMeetings) \ {id})
                          /\ KeySet(activeMeetings) = {id} => activeMeetings' = <<>>]_vars

\* meeting_ended has just removed one of two entries and the other one is still
\* stored
DispatchMapsAndRemovesWitness ==
    /\ last.op = "meeting_ended"
    /\ last.note = "present"
    /\ Len(activeMeetings) = 1

\* the frames whose dispatch the bound on requests in flight does not hold back
Dispatchable == {f \in Frames : (f.data.type = "meeting_ended" /\ f.data.meeting # NoMeeting)
                                    => Len(pending) < MaxPending}

\* C12: a frame whose payload does not parse is dropped and the error is not
\* fatal: the registry and its display are as before, the session is still the
\* current one and OPEN, and any frame delivered next on it is dispatched.
UnparsableIsDropped ==
    /\ [][last'.op = "garbage" =>
              /\ activeMeetings' = activeMeetings
              /\ activeDisplay' = activeDisplay
              /\ historyTable' = historyTable
              /\ readyState' = readyState
              /\ websocketConnection' = websocketConnection]_vars
    /\ [](last.op = "garbage" =>
              /\ StateOf(websocketConnection) = "OPEN"
              /\ \A f \in Dispatchable : ENABLED MessageEvent(websocketConnection, f))

\* a frame that does not parse has just been dropped while the registry holds
\* an entry
UnparsableIsDroppedWitness ==
    /\ last.op = "garbage"
    /\ last.note = "threw"
    /\ Len(activeMeetings) > 0
    /\ StateOf(websocketConnection) = "OPEN"

\* C13: an event whose type is none of the known kinds is logged and dropped:
\* the handler does not throw, adds no notice, leaves the registry, its display,
\* the history table and the requests in flight as they were, and the session
\* stays OPEN with the dispatch of any next frame enabled.
UnknownTypeIsDropped ==
    /\ [][last'.op = "unknown" =>
              /\ last'.note # "threw"
              /\ last'.alert = NoAlert
              /\ activeMeetings' = activeMeetings
              /\ activeDisplay' = activeDisplay
              /\ historyTable' = historyTable
              /\ pending' = pending
              /\ readyState' = readyState]_vars
    /\ [](last.op = "unknown" =>
              \E s \in Slots :
                  /\ readyState[s] = "OPEN"
                  /\ \A f \in Dispatchable : ENABLED MessageEvent(s, f))

\* an event of unknown type has just been dropped while the registry holds two
\* entries
UnknownTypeIsDroppedWitness ==
    /\ last.op = "unknown"
    /\ last.rs = "OPEN"
    /\ Len(activeMeetings) = 2

\* C14, as claimed: every dispatched meeting_ended event that carries a
\* meeting_id removes that id from the registry and sends the refresh request
\* GET /api/agent/meetings.
EndedTriggersRefresh ==
    [][last'.op = "meeting_ended" =>
          \A s \in Slots, f \in EndedFrames :
              MessageEvent(s, f) =>
                  /\ ~MapHas(activeMeetings', f.data.meeting_id)
                  /\ pending' = Append(pending, Request("history", Absent))]_vars

\* C15: the dispatch of a transcript_update event or of a pong event leaves the
\* active-meetings registry and its display unchanged, whatever the registry
\* holds.
TranscriptAndPongKeepRegistry ==
    [][last'.op \in {"transcript_update", "pong"} =>
          /\ activeMeetings' = activeMeetings
          /\ activeDisplay' = activeDisplay]_vars

\* a transcript_update has just been dispatched, with its notice, while the
\* registry holds two entries
TranscriptAndPongKeepRegistryWitness ==
    /\ last.op = "transcript_update"
    /\ last.alert = "light"
    /\ Len(activeMeetings) = 2

\* what the handler of one frame does to the registry
Applied(map, frame) ==
    IF ~frame.json THEN map
    ELSE CASE frame.data.type = "meeting_started" ->
                  MapSet(map, frame.data.meeting.meeting_id, frame.data.meeting)
           [] frame.data.type = "meeting_ended" -> MapDelete(map, frame.data.meeting_id)
           [] OTHER -> map

\* the handlers of a sequence of frames applied one after another, first to last
RECURSIVE AppliedAll(_, _)
AppliedAll(map, frames) ==
    IF frames = <<>> THEN map
    ELSE AppliedAll(Applied(map, Head(frames)), Tail(frames))

HeartbeatPingsOpenSession ==
    [][(HeartbeatTick /\ StateOf(websocketConnection) = "OPEN") =>
          /\ last'.op = "heartbeat"
          /\ last'.rs = "OPEN"
          /\ last'.note = "ping"
          /\ readyState' = readyState
          /\ websocketConnection' = websocketConnection]_vars

\* a tick has just sent the ping on a session opened by a reconnect, the first
\* session being closed, with an entry in the registry from an earlier event
HeartbeatPingsOpenSessionWitness ==
    /\ last.op = "heartbeat"
    /\ last.note = "ping"
    /\ StateOf(websocketConnection) = "OPEN"
    /\ \E s \in Slots : s # websocketConnection /\ readyState[s] = "CLOSED"
    /\ Len(activeMeetings) > 0

\* C18, as claimed: shutdown() cancels the pending reconnect and closes the
\* open session, so that once it has been called no reconnect timer is pending
\* and no session is CONNECTING or OPEN (no session is opened and no ping is
\* sent afterwards).
ShutdownStopsSession ==
    last.op = "shutdown" =>
        /\ reconnectTimers = 0
        /\ LiveSessions = {}

RestDoneOps == {"join_done", "end_done", "history_done", "download_done"}

\* C19, as claimed: every failure of a REST call made by joinMeeting,
\* endMeeting, loadMeetingHistory or downloadTranscript, a rejected request as
\* well as a response that reports failure, adds an error notice to the
\* live-updates feed.
RestFailuresSurfaced ==
    (last.op \in RestDoneOps /\ last.note \in {"failure", "rejected"}) =>
        last.alert = getBootstrapClass("error")

\* C20: endMeeting(id) removes id from the registry only after the server has
\* answered with success. Declined confirmation: no request is sent and nothing
\* changes. Confirmed: the POST is sent and the registry stays as it is until
\* the answer. Rejected request or answer reporting failure: the registry and
\* its display are unchanged and an error notice is added. Success: id is
\* removed, every other entry is kept, a success notice is added and the
\* history refresh GET /api/agent/meetings is sent.
EndMeetingRemovesOnSuccessOnly ==
    [][/\ last'.op = "end" =>
              \A id \in Ids :
                  /\ EndMeeting(id, FALSE) =>
                         /\ pending' = pending
                         /\ activeMeetings' = activeMeetings
                         /\ activeDisplay' = activeDisplay
                         /\ historyTable' = historyTable
                         /\ last'.alert = NoAlert
                  /\ EndMeeting(id, TRUE) =>
                         /\ pending' = Append(pending, Request("end", id))
                         /\ activeMeetings' = activeMeetings
                         /\ activeDisplay' = activeDisplay
       /\ last'.op = "end_done" =>
              \A i \in 1..Len(pending), outcome \in Outcomes :
                  EndResponse(i, outcome) =>
                      IF outcome = "success"
                      THEN /\ ~MapHas(activeMeetings', pending[i].arg)
                           /\ \A k \in Ids \ {pending[i].arg} :
                                  ValueAt(activeMeetings', k) = ValueAt(activeMeetings, k)
                           /\ pending' = Append(RemoveAt(pending, i),
                                                Request("history", Absent))
                           /\ last'.alert = getBootstrapClass("success")
                      ELSE /\ activeMeetings' = activeMeetings
                           /\ activeDisplay' = activeDisplay
                           /\ pending' = RemoveAt(pending, i)
                           /\ last'.alert = getBootstrapClass("error")]_vars

\* the server has just confirmed the end of one of two meetings: its entry is
\* gone, the other is kept and the history refresh is in flight
EndMeetingRemovesOnSuccessOnlyWitness ==
    /\ last.op = "end_done"
    /\ last.note = "present"
    /\ last.alert = "success"
    /\ Len(activeMeetings) = 1
    /\ pending = <<Request("history", Absent)>>

\* the record joinMeeting stores for request i when the server answers result
JoinedMeeting(i, result) == [meeting_id |-> result.meeting_id, title |-> pending[i].arg]

\* C21, as claimed: joinMeeting changes the registry only on a successful
\* response; on success the registry gains exactly one entry, keyed by the
\* meeting_id the server returned; on a rejected request or a response that
\* reports failure the registry is unchanged and an error notice is added.
JoinGainsOneEntry ==
    [][last'.op = "join_done" =>
          \A i \in 1..Len(pending), result \in JoinResults :
              JoinResponse(i, result) =>
                  IF result.outcome = "success"
                  THEN /\ Len(activeMeetings') = Len(activeMeetings) + 1
                       /\ MapHas(activeMeetings', result.meeting_id)
                  ELSE /\ activeMeetings' = activeMeetings
                       /\ last'.alert = getBootstrapClass("error")]_vars

\* C21, amended: joinMeeting changes the registry only on a successful
\* response; on success the registry maps the meeting_id the server returned to
\* the joined meeting, as a new entry when the id was not stored and in place of
\* the stored record when it was (the registry then gains no entry), and every
\* other entry is as before; on a rejected request or a response that reports
\* failure the registry and its display are unchanged and an error notice is
\* added. Sending the request changes nothing.
JoinUpsertsOnSuccessOnly ==
    [][/\ last'.op = "join" =>
              /\ activeMeetings' = activeMeetings
              /\ activeDisplay' = activeDisplay
       /\ last'.op = "join_done" =>
              \A i \in 1..Len(pending), result \in JoinResults :
                  JoinResponse(i, result) =>
                      IF result.outcome = "success"
                      THEN /\ ValueAt(activeMeetings', result.meeting_id) =
                                  JoinedMeeting(i, result)
                           /\ \A k \in Ids \ {result.meeting_id} :
                                  ValueAt(activeMeetings', k) = ValueAt(activeMeetings, k)
                           /\ Len(activeMeetings') =
                                  IF MapHas(activeMeetings, result.meeting_id)
                                  THEN Len(activeMeetings)
                                  ELSE Len(activeMeetings) + 1
                           /\ last'.alert = getBootstrapClass("success")
                      ELSE /\ activeMeetings' = activeMeetings
                           /\ activeDisplay' = activeDisplay
                           /\ last'.alert = getBootstrapClass("error")]_vars

\* the server has just confirmed a join under an id the registry already held
\* with another record (the meeting_started event came first): the record is
\* replaced and the registry still holds two entries
JoinUpsertsOnSuccessOnlyWitness ==
    /\ last.op = "join_done"
    /\ last.note = "overwrite"
    /\ last.alert = "success"
    /\ Len(activeMeetings) = 2

\* C22, as claimed: the response to an earlier history request never
\* overwrites table contents rendered from a later push: when the table has
\* just been rendered from a meetings_update event, every request still in
\* flight was sent before that event, and its response leaves the table as the
\* event rendered it.
EarlierResponseKeepsLaterTable ==
    [][(last.op = "meetings_update" /\ last'.op = "history_done") =>
          historyTable' = historyTable]_vars

SessionOps == {"connect", "open", "closing", "error", "close"}

\* C23: the open, error and close events of a session, the start of its
\* closing handshake and the creation of a session at page load or by the
\* reconnect timer leave the active-meetings registry and its display as they
\* were: the entries outlive the session, and a new session neither clears nor
\* reloads them.
SessionEventsKeepRegistry ==
    [][last'.op \in SessionOps =>
          /\ activeMeetings' = activeMeetings
          /\ activeDisplay' = activeDisplay]_vars

\* the session of a reconnect has just opened, the earlier session is closed,
\* and the registry still holds the two entries it held before
SessionEventsKeepRegistryWitness ==
    /\ last.op = "open"
    /\ StateOf(websocketConnection) = "OPEN"
    /\ \E s \in Slots : s # websocketConnection /\ readyState[s] = "CLOSED"
    /\ Len(activeMeetings) = 2

FeedBoundedNewestFirst ==
    /\ [](/\ Len(liveUpdates) <= KeepUpdates
          /\ \A i, j \in 1..Len(liveUpdates) :
                 i < j => liveUpdates[i].n > liveUpdates[j].n)
    /\ [][last'.op = "notice" =>
              /\ liveUpdates'[1].n = NextNotice
              /\ liveUpdates'[1].class = last'.alert
              /\ \A e \in {liveUpdates[i] : i \in 1..Len(liveUpdates)} :
                     liveUpdates'[1].n > e.n
              /\ IF Len(liveUpdates) < KeepUpdates
                 THEN Tail(liveUpdates') = liveUpdates
                 ELSE /\ Tail(liveUpdates') = SubSeq(liveUpdates, 1, Len(liveUpdates) - 1)
                      /\ \A i \in 1..Len(liveUpdates) :
                             liveUpdates[Len(liveUpdates)].n <= liveUpdates[i].n]_vars

\* an eleventh alert has just been added to a full feed from which the user
\* had dismissed none of the oldest: the feed holds 10, the new one first, and
\* the first notice is gone
FeedBoundedNewestFirstWitness ==
    /\ last.op = "notice"
    /\ last.note = "evicted"
    /\ Len(liveUpdates) = KeepUpdates
    /\ liveUpdates[1].n = MaxNotices
    /\ liveUpdates[KeepUpdates].n > 1

====
